---- MODULE Spec2Model ----
(***************************************************************************)
(* Model of the Quectel L76 GNSS driver (src/l76.py): the NMEA line        *)
(* validator _check, the sentence decoder and fix aggregator _parse, the   *)
(* shared fix / timestamp slots with their accessors, and the receiver     *)
(* thread _run.                                                            *)
(*                                                                         *)
(* Text is modelled as a sequence of byte values (Python str / bytearray), *)
(* indexed from 0 in the Python operators below.  A Python float is        *)
(* modelled as an exact reduced fraction <<n, d>>, a Python int held in a  *)
(* fix as <<n>>, and None as <<>>.                                         *)
(***************************************************************************)
EXTENDS Integers, Sequences, FiniteSets, TLC

(***************************************************************************)
(* Byte values of the characters the driver's code names or relies on.     *)
(***************************************************************************)
chDollar == 36
chStar == 42
chComma == 44
chDot == 46

None == <<>>

\* A Python string literal of the source, as bytes.
strRMC == <<82, 77, 67>>
strGGA == <<71, 71, 65>>
strGSA == <<71, 83, 65>>
strA == <<65>>
strS == <<83>>
strW == <<87>>
str0 == <<48>>
str3 == <<51>>

(***************************************************************************)
(* Python built-ins used by the driver.                                    *)
(***************************************************************************)

\* Clamp of a slice / find index to 0..Len(s), negative counting from the end.
PyIndex(s, i) ==
    IF i < 0 THEN (IF i + Len(s) < 0 THEN 0 ELSE i + Len(s))
    ELSE IF i > Len(s) THEN Len(s) ELSE i

\* s[lo:hi]
PySlice(s, lo, hi) ==
    IF PyIndex(s, lo) < PyIndex(s, hi)
    THEN SubSeq(s, PyIndex(s, lo) + 1, PyIndex(s, hi))
    ELSE <<>>

\* s[lo:]
PyFrom(s, lo) == PySlice(s, lo, Len(s))

\* s.find(c, from): lowest index >= from holding byte c, -1 if none.
Lowest(hits) ==
    IF hits = {} THEN -1
    ELSE CHOOSE i \in hits : \A j \in hits : i <= j
PyFind(s, c, from) ==
    Lowest({i \in PyIndex(s, from) .. (Len(s) - 1) : s[i + 1] = c})

\* s.split(","): the list of fields, always at least one.
RECURSIVE PySplit(_, _)
PySplit(s, c) ==
    IF PyFind(s, c, 0) < 0 THEN <<s>>
    ELSE <<PySlice(s, 0, PyFind(s, c, 0))>> \o PySplit(PyFrom(s, PyFind(s, c, 0) + 1), c)

\* a ^ b on non-negative integers.
RECURSIVE PyXor(_, _)
PyXor(a, b) ==
    IF a = 0 THEN b
    ELSE IF b = 0 THEN a
    ELSE (((a % 2) + (b % 2)) % 2) + 2 * PyXor(a \div 2, b \div 2)

IsSpaceCh(c) == c \in {9, 10, 11, 12, 13, 32}

RECURSIVE PyLStrip(_)
PyLStrip(s) ==
    IF s # <<>> /\ IsSpaceCh(s[1]) THEN PyLStrip(Tail(s)) ELSE s

RECURSIVE PyRStrip(_)
PyRStrip(s) ==
    IF s # <<>> /\ IsSpaceCh(s[Len(s)]) THEN PyRStrip(SubSeq(s, 1, Len(s) - 1)) ELSE s

\* Value of a digit character in the given base, -1 if it is none.
DigitVal(c, base) ==
    IF c >= 48 /\ c <= 57 /\ c - 48 < base THEN c - 48
    ELSE IF c >= 65 /\ c <= 90 /\ c - 55 < base THEN c - 55
    ELSE IF c >= 97 /\ c <= 122 /\ c - 87 < base THEN c - 87
    ELSE -1

RECURSIVE DigitsVal(_, _, _)
DigitsVal(s, base, acc) ==
    IF s = <<>> THEN acc
    ELSE DigitsVal(Tail(s), base, acc * base + DigitVal(s[1], base))

AllDigits(s, base) == \A i \in 1 .. Len(s) : DigitVal(s[i], base) >= 0

\* The sign, the 0x prefix and the digits of a stripped literal t.
HasSign(t) == t # <<>> /\ t[1] \in {43, 45}
Unsigned(t) == IF HasSign(t) THEN Tail(t) ELSE t
Digits(u, base) ==
    IF base = 16 /\ Len(u) >= 2 /\ u[1] = 48 /\ u[2] \in {88, 120}
    THEN SubSeq(u, 3, Len(u))
    ELSE u
Signed(t, mag) == IF HasSign(t) /\ t[1] = 45 THEN 0 - mag ELSE mag

\* int(s, base): [ok, v]; ok = FALSE is the ValueError.  Surrounding
\* whitespace, one sign and (base 16) a 0x prefix are accepted.
IntOf(t, w, base) ==
    IF w = <<>> \/ ~AllDigits(w, base) THEN [ok |-> FALSE, v |-> 0]
    ELSE [ok |-> TRUE, v |-> Signed(t, DigitsVal(w, base, 0))]
PyInt(s, base) ==
    IntOf(PyRStrip(PyLStrip(s)), Digits(Unsigned(PyRStrip(PyLStrip(s))), base), base)

RECURSIVE Gcd(_, _)
Gcd(a, b) == IF b = 0 THEN a ELSE Gcd(b, a % b)

\* The fraction n/d (d > 0) in lowest terms.
Reduced(n, d, g) == IF g = 0 THEN <<0, 1>> ELSE <<n \div g, d \div g>>
Rat(n, d) == Reduced(n, d, Gcd(IF n < 0 THEN 0 - n ELSE n, d))

RECURSIVE Pow10(_)
Pow10(k) == IF k = 0 THEN 1 ELSE 10 * Pow10(k - 1)

\* float(s): [ok, v]; decimal notation, one optional sign and point.
FloatOf(t, ip, fp) ==
    IF ip \o fp = <<>> \/ ~AllDigits(ip \o fp, 10) THEN [ok |-> FALSE, v |-> None]
    ELSE [ok |-> TRUE,
          v |-> Rat(Signed(t, DigitsVal(ip \o fp, 10, 0)), Pow10(Len(fp)))]
FloatAt(t, u, k) ==
    FloatOf(t, IF k < 0 THEN u ELSE PySlice(u, 0, k),
               IF k < 0 THEN <<>> ELSE PyFrom(u, k + 1))
PyFloat(s) ==
    FloatAt(PyRStrip(PyLStrip(s)), Unsigned(PyRStrip(PyLStrip(s))),
            PyFind(Unsigned(PyRStrip(PyLStrip(s))), chDot, 0))

RatMul(x, n, d) == Rat(x[1] * n, x[2] * d)
RatAddInt(i, x) == Rat(i * x[2] + x[1], x[2])
RatNeg(x) == <<0 - x[1], x[2]>>

(***************************************************************************)
(* L76._check                                                              *)
(***************************************************************************)

\* The index of the last '$' of the line, -1 if there is none.
RECURSIVE LastStart(_, _)
LastStart(buf, start) ==
    IF PyFind(buf, chDollar, start + 1) < 0 THEN start
    ELSE LastStart(buf, PyFind(buf, chDollar, start + 1))

\* crc after "for ch in s: crc = crc ^ ch", starting from crc: bit k of the
\* result is the parity of the number of operands that have bit k set.
Bit(a, k) == (a \div (2 ^ k)) % 2
XorBit(s, crc, k) ==
    (Cardinality({i \in 1 .. Len(s) : Bit(s[i], k) = 1}) + Bit(crc, k)) % 2
XorAll(s, crc) ==
    XorBit(s, crc, 0) + 2 * XorBit(s, crc, 1) + 4 * XorBit(s, crc, 2)
    + 8 * XorBit(s, crc, 3) + 16 * XorBit(s, crc, 4) + 32 * XorBit(s, crc, 5)
    + 64 * XorBit(s, crc, 6) + 128 * XorBit(s, crc, 7)

CheckedText_payload(buf, start, end) == PySlice(buf, start + 1, end)

\* What _check returns on a checksum match: buf[start:end].
CheckedText(buf, start, end) == PySlice(buf, start, end)

Compare_low(buf, start, end, crc, check) ==
    IF ~check.ok THEN None
    ELSE IF crc % 16 = check.v % 16 THEN CheckedText(buf, start, end)
    ELSE None

\* Lines 328-339: the comparison of the two checksums.
Compare(buf, start, end, crc, check) ==
    IF ~check.ok THEN None
    ELSE IF crc = check.v THEN CheckedText(buf, start, end)
    ELSE None

\* Lines 322-339, once start and end are found.
Framed(buf, start, end) ==
    IF start < 0 \/ end < 0 \/ end <= start + 2 THEN None
    ELSE Compare(buf, start, end, XorAll(PySlice(buf, start + 1, end), 0),
                 PyInt(PySlice(buf, end + 1, end + 3), 16))

\* _check(line): the validated sentence, or None.
_check(buf) == Framed(buf, LastStart(buf, -1), PyFind(buf, chStar, LastStart(buf, -1)))

(***************************************************************************)
(* State of one L76 object and of its receiver thread.                     *)
(***************************************************************************)
VARIABLES
    running,    \* self.running
    th,         \* self.th is set (the receiver thread was created)
    drv,        \* self.drv is set (the serial stream was opened)
    _tm,        \* self._tm, the list of 7 time components
    _cfix,      \* self._cfix, the list of 10 fields of the fix being built
    _rmc,       \* self._rmc
    _gga,       \* self._gga
    _gsa,       \* self._gsa
    _utc,       \* self._utc
    _time,      \* self._time, the timestamp slot
    _fix,       \* self._fix, the fix slot
    pc,         \* where the receiver thread is in _run
    line,       \* the local variable line of _run
    sent,       \* the last command written to the serial stream, "" before the first
    stopped,    \* history: stop() has been called
    fresh,      \* history: the fields written since the last fix publication
    lastGsa,    \* history: <<vdop, pdop>> of the last GSA decoded in full since then
    timePub,    \* history: the last timestamp the writer put in the slot
    prov,       \* history: fresh, lastGsa and timePub as the last fix was published
    drain,      \* history: what utc() and fix() returned since the last publication
    fed,        \* history: the lines fed and the reads made, in order
    nfed,       \* history: the number of lines taken from the line source
    lock,       \* self._lock: "free", or who holds it ("writer", a reader)
    cs,         \* the critical section of _parse the receiver thread is in
    rd          \* the accessor call each reader thread is in, and what it saw

histVars == <<stopped, fresh, lastGsa, timePub, prov, drain, fed, nfed>>
lockVars == <<lock, cs, rd>>
vars == <<running, th, drv, _tm, _cfix, _rmc, _gga, _gsa, _utc, _time, _fix,
          pc, line, sent, histVars, lockVars>>

\* self._cfix[-1] = self._tm stores a reference to the list, not its value.
TmRef == <<"_tm">>

\* Positions in _cfix and _tm, as Python numbers them from 0.
At(i) == i + 1
\* The name under which component i of _tm is recorded in fresh.
TmAt(i) == 10 + At(i)

(***************************************************************************)
(* The private setters.  d is the decoding state: the fields of the object *)
(* the receiver thread alone writes, with exc set once a call has raised;  *)
(* a statement after the raise is not executed.                            *)
(***************************************************************************)
Touch(d, i, v) ==
    IF d.exc THEN d
    ELSE [d EXCEPT !.cfix[At(i)] = v, !.fresh = @ \cup {At(i)}]

\* One assignment self._tm[i] = int(...), r the result of the int().
TmPut(d, i, r) ==
    IF d.exc THEN d
    ELSE IF ~r.ok THEN [d EXCEPT !.exc = TRUE]
    ELSE [d EXCEPT !.tm[At(i)] = r.v, !.fresh = @ \cup {TmAt(i)}]

Year_2000(yy) == 2000 + yy

\* The year _set_time stores for the parsed value yy: line 262 stores yy
\* itself when yy >= 100, and lines 263-266 then overwrite it.
Year(yy) == IF yy >= 80 THEN 1900 + yy ELSE 2000 + yy

\* Lines 272-273, reached when no int() has raised.
TimeSet(d) ==
    IF d.exc THEN d
    ELSE [d EXCEPT !.cfix[At(9)] = TmRef, !.utc = TRUE]

_set_time(d, tm, dt) ==
    TimeSet(TmPut(TmPut(TmPut(TmPut(TmPut(TmPut(TmPut(d,
        0, [PyInt(PyFrom(dt, 4), 10) EXCEPT !.v = Year(@)]),
        1, PyInt(PySlice(dt, 2, 4), 10)),
        2, PyInt(PySlice(dt, 0, 2), 10)),
        3, PyInt(PySlice(tm, 0, 2), 10)),
        4, PyInt(PySlice(tm, 2, 4), 10)),
        5, PyInt(PySlice(tm, 4, 6), 10)),
        6, PyInt(PyFrom(tm, 7), 10)))

\* int(x[0:m]) + float(x[m:])/60 with m = x.find('.') - 2: [ok, v].
DegMin(deg, min) ==
    IF ~deg.ok \/ ~min.ok THEN [ok |-> FALSE, v |-> None]
    ELSE [ok |-> TRUE, v |-> RatAddInt(deg.v, RatMul(min.v, 1, 60))]
Degrees(x) ==
    DegMin(PyInt(PySlice(x, 0, PyFind(x, chDot, 0) - 2), 10),
           PyFloat(PyFrom(x, PyFind(x, chDot, 0) - 2)))

\* Lines 280-285, with la and lo the two conversions of lines 276-279.
PosSet(d, la, latp, lo, lonp) ==
    IF d.exc THEN d
    ELSE IF ~la.ok \/ ~lo.ok THEN [d EXCEPT !.exc = TRUE]
    ELSE Touch(Touch(d, 0, IF latp = strS THEN RatNeg(la.v) ELSE la.v),
               1, IF lonp = strW THEN RatNeg(lo.v) ELSE lo.v)

_set_pos(d, lat, latp, lon, lonp) == PosSet(d, Degrees(lat), latp, Degrees(lon), lonp)

\* One setter of a float field: self._cfix[i] = float(x) * n / k.
FloatSet(d, i, r, n, k) ==
    IF d.exc THEN d
    ELSE IF ~r.ok THEN [d EXCEPT !.exc = TRUE]
    ELSE Touch(d, i, RatMul(r.v, n, k))
SetFloat(d, i, x, n, k) == FloatSet(d, i, PyFloat(x), n, k)

_set_spd(d, spd) == SetFloat(d, 3, spd, 1852, 1000)
_set_cog(d, cog) == SetFloat(d, 4, cog, 1, 1)
_set_hdop(d, hdop) == SetFloat(d, 6, hdop, 1, 1)
_set_vdop(d, vdop) == SetFloat(d, 7, vdop, 1, 1)
_set_pdop(d, pdop) == SetFloat(d, 8, pdop, 1, 1)
_set_alt(d, alt) == SetFloat(d, 2, alt, 1, 1)

NsatSet(d, r) ==
    IF d.exc THEN d
    ELSE IF ~r.ok THEN [d EXCEPT !.exc = TRUE]
    ELSE Touch(d, 5, <<r.v>>)
_set_nsat(d, nsat) == NsatSet(d, PyInt(nsat, 10))

(***************************************************************************)
(* Lines the line source can deliver.                                      *)
(***************************************************************************)
\* the RMC line of the reference scenario: 12 fields:
\* $GPRMC,123519,A,4807.038,N,01131.000,E,022.4,084.4,230394,003.1,W*6A
RefRMC ==
    <<36, 71, 80, 82, 77, 67, 44, 49, 50, 51, 53, 49, 57, 44, 65, 44, 52,
      56, 48, 55, 46, 48, 51, 56, 44, 78, 44, 48, 49, 49, 51, 49, 46, 48,
      48, 48, 44, 69, 44, 48, 50, 50, 46, 52, 44, 48, 56, 52, 46, 52, 44,
      50, 51, 48, 51, 57, 52, 44, 48, 48, 51, 46, 49, 44, 87, 42, 54, 65>>

\* the GGA line of the reference scenario:
\* $GPGGA,123519,4807.038,N,01131.000,E,1,08,0.9,545.4,M,46.9,M,,*47
RefGGA ==
    <<36, 71, 80, 71, 71, 65, 44, 49, 50, 51, 53, 49, 57, 44, 52, 56, 48,
      55, 46, 48, 51, 56, 44, 78, 44, 48, 49, 49, 51, 49, 46, 48, 48, 48,
      44, 69, 44, 49, 44, 48, 56, 44, 48, 46, 57, 44, 53, 52, 53, 46, 52,
      44, 77, 44, 52, 54, 46, 57, 44, 77, 44, 44, 42, 52, 55>>

\* the reference RMC as the L76 sends it: fractional time, 13 fields:
\* $GPRMC,123519.000,A,4807.038,N,01131.000,E,022.4,084.4,230394,003.1,W,A*19
RmcA1 ==
    <<36, 71, 80, 82, 77, 67, 44, 49, 50, 51, 53, 49, 57, 46, 48, 48, 48,
      44, 65, 44, 52, 56, 48, 55, 46, 48, 51, 56, 44, 78, 44, 48, 49, 49,
      51, 49, 46, 48, 48, 48, 44, 69, 44, 48, 50, 50, 46, 52, 44, 48, 56,
      52, 46, 52, 44, 50, 51, 48, 51, 57, 52, 44, 48, 48, 51, 46, 49, 44,
      87, 44, 65, 42, 49, 57>>

\* an active RMC in the south-west:
\* $GNRMC,235959.500,A,3352.100,S,07030.600,W,000.0,359.9,010120,,,D*7E
RmcA2 ==
    <<36, 71, 78, 82, 77, 67, 44, 50, 51, 53, 57, 53, 57, 46, 53, 48, 48,
      44, 65, 44, 51, 51, 53, 50, 46, 49, 48, 48, 44, 83, 44, 48, 55, 48,
      51, 48, 46, 54, 48, 48, 44, 87, 44, 48, 48, 48, 46, 48, 44, 51, 53,
      57, 46, 57, 44, 48, 49, 48, 49, 50, 48, 44, 44, 44, 68, 42, 55, 69>>

\* an RMC with validity V: time and date only:
\* $GPRMC,000001.000,V,,,,,,,060180,,,N*43
RmcV ==
    <<36, 71, 80, 82, 77, 67, 44, 48, 48, 48, 48, 48, 49, 46, 48, 48, 48,
      44, 86, 44, 44, 44, 44, 44, 44, 44, 48, 54, 48, 49, 56, 48, 44, 44,
      44, 78, 42, 52, 51>>

\* an RMC before the first time fix: int('') raises in _set_time:
\* $GPRMC,,V,,,,,,,,,,N*53
RmcNoTime ==
    <<36, 71, 80, 82, 77, 67, 44, 44, 86, 44, 44, 44, 44, 44, 44, 44, 44,
      44, 44, 78, 42, 53, 51>>

\* an active RMC with an empty speed: float('') raises in _set_spd:
\* $GPRMC,101010.000,A,0100.000,N,00200.000,E,,,020202,,,A*6E
RmcNoSpd ==
    <<36, 71, 80, 82, 77, 67, 44, 49, 48, 49, 48, 49, 48, 46, 48, 48, 48,
      44, 65, 44, 48, 49, 48, 48, 46, 48, 48, 48, 44, 78, 44, 48, 48, 50,
      48, 48, 46, 48, 48, 48, 44, 69, 44, 44, 44, 48, 50, 48, 50, 48, 50,
      44, 44, 44, 65, 42, 54, 69>>

\* a second GGA:
\* $GPGGA,235959.500,3352.100,S,07030.600,W,2,11,1.2,20.5,M,,M,,*7A
GgaB ==
    <<36, 71, 80, 71, 71, 65, 44, 50, 51, 53, 57, 53, 57, 46, 53, 48, 48,
      44, 51, 51, 53, 50, 46, 49, 48, 48, 44, 83, 44, 48, 55, 48, 51, 48,
      46, 54, 48, 48, 44, 87, 44, 50, 44, 49, 49, 44, 49, 46, 50, 44, 50,
      48, 46, 53, 44, 77, 44, 44, 77, 44, 44, 42, 55, 65>>

\* a GGA with fix quality 0:
\* $GPGGA,123520.000,,,,,0,00,,,M,,M,,*7F
GgaNoFix ==
    <<36, 71, 80, 71, 71, 65, 44, 49, 50, 51, 53, 50, 48, 46, 48, 48, 48,
      44, 44, 44, 44, 44, 48, 44, 48, 48, 44, 44, 44, 77, 44, 44, 77, 44,
      44, 42, 55, 70>>

\* a GGA with an empty satellite count: int('') raises in _set_nsat:
\* $GPGGA,123521.000,,,,,1,,2.5,,M,,M,,*56
GgaNoSat ==
    <<36, 71, 80, 71, 71, 65, 44, 49, 50, 51, 53, 50, 49, 46, 48, 48, 48,
      44, 44, 44, 44, 44, 49, 44, 44, 50, 46, 53, 44, 44, 77, 44, 44, 77,
      44, 44, 42, 53, 54>>

\* a GGA of 14 fields:
\* $GPGGA,123519,4807.038,N,01131.000,E,1,08,0.9,545.4,M,46.9,M*47
GgaShort ==
    <<36, 71, 80, 71, 71, 65, 44, 49, 50, 51, 53, 49, 57, 44, 52, 56, 48,
      55, 46, 48, 51, 56, 44, 78, 44, 48, 49, 49, 51, 49, 46, 48, 48, 48,
      44, 69, 44, 49, 44, 48, 56, 44, 48, 46, 57, 44, 53, 52, 53, 46, 52,
      44, 77, 44, 52, 54, 46, 57, 44, 77, 42, 52, 55>>

\* a GSA with a 3D fix:
\* $GPGSA,A,3,04,05,,09,12,,,24,,,,,2.5,1.3,2.1*39
GsaA ==
    <<36, 71, 80, 71, 83, 65, 44, 65, 44, 51, 44, 48, 52, 44, 48, 53, 44,
      44, 48, 57, 44, 49, 50, 44, 44, 44, 50, 52, 44, 44, 44, 44, 44, 50,
      46, 53, 44, 49, 46, 51, 44, 50, 46, 49, 42, 51, 57>>

\* a second GSA with a 3D fix:
\* $GPGSA,A,3,01,02,03,,,,,,,,,,1.6,0.8,1.4*38
GsaB ==
    <<36, 71, 80, 71, 83, 65, 44, 65, 44, 51, 44, 48, 49, 44, 48, 50, 44,
      48, 51, 44, 44, 44, 44, 44, 44, 44, 44, 44, 44, 49, 46, 54, 44, 48,
      46, 56, 44, 49, 46, 52, 42, 51, 56>>

\* a GSA with a 2D fix:
\* $GPGSA,A,2,04,05,,,,,,,,,,,9.9,9.9,9.9*32
Gsa2D ==
    <<36, 71, 80, 71, 83, 65, 44, 65, 44, 50, 44, 48, 52, 44, 48, 53, 44,
      44, 44, 44, 44, 44, 44, 44, 44, 44, 44, 57, 46, 57, 44, 57, 46, 57,
      44, 57, 46, 57, 42, 51, 50>>

\* a 3D GSA with an empty PDOP: float('') raises in _set_pdop:
\* $GPGSA,A,3,04,05,06,,,,,,,,,,,3.3,4.4*1B
GsaNoPdop ==
    <<36, 71, 80, 71, 83, 65, 44, 65, 44, 51, 44, 48, 52, 44, 48, 53, 44,
      48, 54, 44, 44, 44, 44, 44, 44, 44, 44, 44, 44, 44, 51, 46, 51, 44,
      52, 46, 52, 42, 49, 66>>

\* a sentence of another type:
\* $GPGSV,1,1,01,04,45,120,30*4D
Gsv ==
    <<36, 71, 80, 71, 83, 86, 44, 49, 44, 49, 44, 48, 49, 44, 48, 52, 44,
      52, 53, 44, 49, 50, 48, 44, 51, 48, 42, 52, 68>>

\* GgaB with one bit of the checksum flipped:
\* $GPGGA,235959.500,3352.100,S,07030.600,W,2,11,1.2,20.5,M,,M,,*7B
BadSum ==
    <<36, 71, 80, 71, 71, 65, 44, 50, 51, 53, 57, 53, 57, 46, 53, 48, 48,
      44, 51, 51, 53, 50, 46, 49, 48, 48, 44, 83, 44, 48, 55, 48, 51, 48,
      46, 54, 48, 48, 44, 87, 44, 50, 44, 49, 49, 44, 49, 46, 50, 44, 50,
      48, 46, 53, 44, 77, 44, 44, 77, 44, 44, 42, 55, 66>>

\* bytes without a start delimiter:
\* PRMC,1,A*00
Noise ==
    <<80, 82, 77, 67, 44, 49, 44, 65, 42, 48, 48>>


\* an RMC whose date field carries a three-digit year:
\* $GPRMC,000002.000,V,,,,,,,0101100,,,N*7E
RmcY100 ==
    <<36, 71, 80, 82, 77, 67, 44, 48, 48, 48, 48, 48, 50, 46, 48, 48, 48,
      44, 86, 44, 44, 44, 44, 44, 44, 44, 48, 49, 48, 49, 49, 48, 48, 44,
      44, 44, 78, 42, 55, 69>>


LineSeq ==
    <<RefRMC, RefGGA, RmcA1, RmcA2, RmcV, RmcNoTime, RmcNoSpd, GgaB, GgaNoFix,
      GgaNoSat, GgaShort, GsaA, GsaB, Gsa2D, GsaNoPdop, Gsv, BadSum, Noise, RmcY100>>

Nth(t, i) == t[i]
Lines == {Nth(LineSeq, i) : i \in 1 .. Len(LineSeq)}
LineNo(l) == CHOOSE i \in 1 .. Len(LineSeq) : Nth(LineSeq, i) = l

\* _check and split of the lines above, computed once and looked up by the
\* position of the line in LineSeq: the same values as _check(l) and
\* s.split(",").
CheckMemo == SubSeq([i \in 1 .. Len(LineSeq) |-> _check(Nth(LineSeq, i))], 1, Len(LineSeq))
SplitMemo == SubSeq([i \in 1 .. Len(LineSeq) |-> PySplit(Nth(CheckMemo, i), chComma)],
                    1, Len(LineSeq))
Checked(l) == IF l \in Lines THEN Nth(CheckMemo, LineNo(l)) ELSE _check(l)
SentNo(s) == CHOOSE i \in 1 .. Len(LineSeq) : Nth(CheckMemo, i) = s
Fields(s) ==
    IF \E i \in 1 .. Len(LineSeq) : Nth(CheckMemo, i) = s
    THEN Nth(SplitMemo, SentNo(s))
    ELSE PySplit(s, chComma)

(***************************************************************************)
(* L76._parse                                                              *)
(***************************************************************************)

\* flds[i]
Fld(flds, i) == flds[At(i)]

\* The decoding state of the object, before a call.
Cur ==
    [tm |-> _tm, cfix |-> _cfix, rmc |-> _rmc, gga |-> _gga, gsa |-> _gsa,
     utc |-> _utc, fresh |-> fresh, lastGsa |-> lastGsa, exc |-> FALSE]

\* How the decoding part of _parse ends: by a return statement, by an
\* exception leaving the call, or by falling through to the publication.
Ended(d, how) == [d |-> [d EXCEPT !.exc = FALSE], out |-> how]
Outcome(d) == IF d.exc THEN Ended(d, "raise") ELSE Ended(d, "fall")

\* Lines 359-363: the sentence is decoded, self._rmc = True.
RmcDone(d) == IF d.exc THEN Outcome(d) ELSE Outcome([d EXCEPT !.rmc = TRUE])

\* Lines 357-363, with d the state _set_time has left.
RmcAfterTime(d, flds) ==
    IF d.exc THEN Outcome(d)
    ELSE IF Fld(flds, 2) # strA THEN Ended(d, "return")
    ELSE RmcDone(_set_cog(_set_spd(_set_pos(d, Fld(flds, 3), Fld(flds, 4),
                                            Fld(flds, 5), Fld(flds, 6)),
                                   Fld(flds, 7)),
                          Fld(flds, 8)))

DecodeRMC(d, flds) ==
    IF Len(flds) < 13 THEN Ended(d, "return")
    ELSE RmcAfterTime(_set_time(d, Fld(flds, 1), Fld(flds, 9)), flds)

GgaDone(d) == IF d.exc THEN Outcome(d) ELSE Outcome([d EXCEPT !.gga = TRUE])

DecodeGGA(d, flds) ==
    IF Len(flds) < 15 THEN Ended(d, "return")
    ELSE IF Fld(flds, 6) = str0 THEN Ended(d, "return")
    ELSE GgaDone(_set_alt(_set_nsat(_set_hdop(d, Fld(flds, 8)), Fld(flds, 7)),
                          Fld(flds, 9)))

GsaDone(d) ==
    IF d.exc THEN Outcome(d)
    ELSE Outcome([d EXCEPT !.gsa = TRUE,
                           !.lastGsa = <<d.cfix[At(7)], d.cfix[At(8)]>>])

DecodeGSA_anyMode(d, flds) ==
    IF Len(flds) < 18 THEN Ended(d, "return")
    ELSE GsaDone(_set_pdop(_set_vdop(_set_hdop(d, Fld(flds, 16)), Fld(flds, 17)),
                           Fld(flds, 15)))

\* Lines 375-384: the GSA branch.
DecodeGSA(d, flds) ==
    IF Len(flds) < 18 THEN Ended(d, "return")
    ELSE IF Fld(flds, 2) # str3 THEN Ended(d, "return")
    ELSE GsaDone(_set_pdop(_set_vdop(_set_hdop(d, Fld(flds, 16)), Fld(flds, 17)),
                           Fld(flds, 15)))

\* Lines 346-386: the dispatch on the command code.
Dispatch(d, cmd, flds) ==
    IF cmd = strRMC THEN DecodeRMC(d, flds)
    ELSE IF cmd = strGGA THEN DecodeGGA(d, flds)
    ELSE IF cmd = strGSA THEN DecodeGSA(d, flds)
    ELSE Ended(d, "fall")

\* Lines 344-386 of _parse: the dispatch on the command code and the decoding.
Decode(d, ln) ==
    IF ln = None \/ Len(ln) < 8 THEN Ended(d, "return")
    ELSE Dispatch(d, PySlice(ln, 3, 6), Fields(ln))

TimeWrite_late(d) == [write |-> d.utc /\ ~(d.rmc /\ d.gga), val |-> d.tm]

\* Lines 387-391: whether the timestamp slot is written, and with what.
TimeWrite(d) == [write |-> d.utc, val |-> d.tm]

FixReady_any(d) == d.rmc \/ d.gga

\* Line 392: the test for a complete fix.
FixReady(d) == d.rmc /\ d.gga

\* Lines 394-397: VDOP and PDOP of a fix without a GSA sentence.
OptionalFields(d) ==
    IF ~d.gsa THEN [d EXCEPT !.cfix[At(7)] = None, !.cfix[At(8)] = None]
    ELSE d

\* Lines 399-410: the tuple put in the fix slot.
FixTuple(d) == SubSeq(d.cfix, 1, 9) \o <<d.tm>>

SeenAfterFix_rmc(d) ==
    [d EXCEPT !.gga = FALSE, !.gsa = FALSE, !.utc = FALSE,
              !.fresh = {}, !.lastGsa = None]

\* Lines 411-414: the flags after a publication.
SeenAfterFix(d) ==
    [d EXCEPT !.rmc = FALSE, !.gga = FALSE, !.gsa = FALSE, !.utc = FALSE,
              !.fresh = {}, !.lastGsa = None]

\* Lines 392-415: [d, fix, pub] after them.
Published(e) ==
    [d |-> SeenAfterFix(e), fix |-> FixTuple(e), pub |-> TRUE,
     prov |-> [fresh |-> e.fresh, gsa |-> e.lastGsa]]
FixSlotAfter(d, old) ==
    IF FixReady(d) THEN Published(OptionalFields(d))
    ELSE [d |-> d, fix |-> old, pub |-> FALSE, prov |-> [fresh |-> {}, gsa |-> None]]

(***************************************************************************)
(* L76.__init__                                                            *)
(***************************************************************************)
\* The threads of the application that call the accessors.
Readers == {"r1", "r2"}

\* A reader outside any accessor call (m is the accessor it is in, "none"
\* outside): has is what its last has_fix() said of
\* the slot ("yes", and "shared" once another reader took the fix since), and
\* check how its last fix() ended when has_fix() had said yes.
NoCall == [at |-> "idle", m |-> "none", has |-> "no", check |-> "none"]

NoProv == [fresh |-> {}, gsa |-> None, time |-> None, fix |-> None]
NoDrain == [fix |-> <<>>, utc |-> <<>>]

Init ==
    /\ running = FALSE
    /\ th = FALSE
    /\ drv = FALSE
    /\ _tm = <<0, 0, 0, 0, 0, 0, 0>>
    /\ _cfix = <<None, None, None, None, None, None, None, None, None, None>>
    /\ _rmc = FALSE
    /\ _gga = FALSE
    /\ _gsa = FALSE
    /\ _utc = FALSE
    /\ _time = None
    /\ _fix = None
    /\ pc = "off"
    /\ line = None
    /\ sent = ""
    /\ stopped = FALSE
    /\ fresh = {}
    /\ lastGsa = None
    /\ timePub = None
    /\ prov = NoProv
    /\ drain = NoDrain
    /\ fed = <<>>
    /\ nfed = 0
    /\ lock = "free"
    /\ cs = "out"
    /\ rd = [r \in Readers |-> NoCall]

\* The decoding state d becomes the state of the object.
Store(d) ==
    /\ _tm' = d.tm
    /\ _cfix' = d.cfix
    /\ _rmc' = d.rmc
    /\ _gga' = d.gga
    /\ _gsa' = d.gsa
    /\ _utc' = d.utc
    /\ fresh' = d.fresh
    /\ lastGsa' = d.lastGsa

(***************************************************************************)
(* Lines 387-391 and 392-415 of _parse as steps on the state of the        *)
(* object: the two critical sections of the writer.  d is the decoding     *)
(* state before the step, t the result of TimeWrite, f of FixSlotAfter.    *)
(***************************************************************************)
SlotAfter(t, slot) == IF t.write THEN t.val ELSE slot

PublishTime(t) ==
    /\ _time' = SlotAfter(t, _time)
    /\ timePub' = SlotAfter(t, timePub)

\* tp: the timestamp last published as the fix is.
PublishFix(f, tp) ==
    /\ Store(f.d)
    /\ _fix' = f.fix
    /\ prov' = IF f.pub
               THEN [fresh |-> f.prov.fresh, gsa |-> f.prov.gsa,
                     time |-> tp, fix |-> f.fix]
               ELSE prov

\* What the readers were handed since the last write of each slot.
Drained(t, f) ==
    drain' = [fix |-> IF f.pub THEN <<>> ELSE drain.fix,
              utc |-> IF t.write THEN <<>> ELSE drain.utc]

(***************************************************************************)
(* A caller that hands lines to _check and _parse itself, one call after   *)
(* the other: self._parse(self._check(l)).                                 *)
(***************************************************************************)

\* The event log of the caller: each line it fed, with the publication of
\* a fix the call made.
LineEv(l) == [ev |-> "line", v |-> l]
PubEv(f) == [ev |-> "pub", v |-> f]
ReadEv(r) == [ev |-> "fix", v |-> r]

\* The call with its intermediate results: ln the checked line, dec the
\* result of the decoding, t and f those of the two publication steps.
FeedSteps(l, ln, dec, t, f, logged) ==
    /\ line' = ln
    /\ PublishTime(t)
    /\ PublishFix(f, SlotAfter(t, timePub))
    /\ Drained(t, f)
    /\ fed' = fed \o (IF logged THEN <<LineEv(l)>> ELSE <<>>)
                 \o (IF f.pub THEN <<PubEv(f.fix)>> ELSE <<>>)
    /\ nfed' = IF logged THEN nfed ELSE nfed + 1
    /\ UNCHANGED <<lockVars, running, th, drv, pc, sent, stopped>>

\* Lines 387-415 after a decoding that ended as dec did.
TimeStep(dec) == IF dec.out = "fall" THEN TimeWrite(dec.d) ELSE [write |-> FALSE, val |-> None]
FixStep(dec) ==
    IF dec.out = "fall" THEN FixSlotAfter(dec.d, _fix)
    ELSE [d |-> dec.d, fix |-> _fix, pub |-> FALSE]

FeedDecoded(l, ln, dec, logged) ==
    FeedSteps(l, ln, dec, TimeStep(dec), FixStep(dec), logged)

FeedCall(l, logged) == FeedDecoded(l, Checked(l), Decode(Cur, Checked(l)), logged)

\* The number of lines a run of the sequential caller feeds.
MaxFeed == 5

Feed(l) == nfed < MaxFeed /\ FeedCall(l, FALSE)

NextParse == \E l \in Lines : Feed(l)

SpecParse == Init /\ [][NextParse]_vars

(***************************************************************************)
(* The same caller keeping the log of what it fed and read, for the        *)
(* scenarios stated on a fresh driver.                                     *)
(***************************************************************************)
FeedLines == {RefRMC, RefGGA, RmcA1, RmcA2, GgaB}

\* The number of lines and reads of a logged run.
MaxLog == 5

\* The calls made so far: the publications are entries of the log, not calls.
Calls(log) == Cardinality({i \in 1 .. Len(log) : log[i].ev # "pub"})

FeedLogged(l) == Calls(fed) < MaxLog /\ FeedCall(l, TRUE)

(***************************************************************************)
(* The accessors.  Each runs under self._lock, as one step.                *)
(***************************************************************************)
TakeFix_keep(slot) == [ret |-> slot, left |-> slot]

\* What fix() returns and leaves in the slot.
TakeFix(slot) == [ret |-> slot, left |-> None]

\* What utc() returns and leaves in the slot (a tuple of 7 is true).
TakeUtc(slot) ==
    IF slot # None THEN [ret |-> slot, left |-> None]
    ELSE [ret |-> None, left |-> slot]

\* The first and the latest of the values handed out since the last write.
Handed(got, r) == IF Len(got) < 2 THEN Append(got, r) ELSE <<got[1], r>>

fix_call(logged) ==
    /\ _fix' = TakeFix(_fix).left
    /\ drain' = [drain EXCEPT !.fix = Handed(@, TakeFix(_fix).ret)]
    /\ fed' = IF logged THEN Append(fed, ReadEv(TakeFix(_fix).ret)) ELSE fed
    /\ UNCHANGED <<lockVars, running, th, drv, _tm, _cfix, _rmc, _gga, _gsa, _utc, _time,
                   pc, line, sent, stopped, fresh, lastGsa, timePub, prov, nfed>>

utc_call ==
    /\ _time' = TakeUtc(_time).left
    /\ drain' = [drain EXCEPT !.utc = Handed(@, TakeUtc(_time).ret)]
    /\ UNCHANGED <<lockVars, running, th, drv, _tm, _cfix, _rmc, _gga, _gsa, _utc, _fix,
                   pc, line, sent, stopped, fresh, lastGsa, timePub, prov, fed, nfed>>

ReadLogged == Calls(fed) < MaxLog /\ fix_call(TRUE)

NextFeed ==
    \/ \E l \in FeedLines : FeedLogged(l)
    \/ ReadLogged

SpecFeed == Init /\ [][NextFeed]_vars

(***************************************************************************)
(* start, stop, pause, resume (mode SERIAL, the default of __init__).      *)
(***************************************************************************)
\* The commands written to the serial stream, without their line end (CR LF).
cmdStop == "$PMTK225,4*2F"
cmdPause == "$PMTK161,0*28"
cmdResume == "$PMTK101*32"

start ==
    /\ IF th THEN UNCHANGED <<drv, th, pc>>
       ELSE /\ drv' = TRUE
            /\ th' = TRUE
            /\ pc' = "init"
    /\ UNCHANGED <<lockVars, running, _tm, _cfix, _rmc, _gga, _gsa, _utc, _time, _fix,
                   line, sent, histVars>>

\* self.drv.write raises on a driver never started: drv is None.
stop ==
    /\ drv
    /\ sent' = cmdStop
    /\ running' = FALSE
    /\ stopped' = TRUE
    /\ UNCHANGED <<lockVars, th, drv, _tm, _cfix, _rmc, _gga, _gsa, _utc, _time, _fix,
                   pc, line, fresh, lastGsa, timePub, prov, drain, fed, nfed>>

Write(cmd) ==
    /\ drv
    /\ sent' = cmd
    /\ UNCHANGED <<lockVars, running, th, drv, _tm, _cfix, _rmc, _gga, _gsa, _utc, _time,
                   _fix, pc, line, histVars>>

pause_flag ==
    /\ drv
    /\ sent' = cmdPause
    /\ running' = FALSE
    /\ UNCHANGED <<lockVars, th, drv, _tm, _cfix, _rmc, _gga, _gsa, _utc, _time, _fix,
                   pc, line, histVars>>

\* pause(), lines 145-156: the standby command, and nothing else.
pause == Write(cmdPause)
resume == Write(cmdResume)

(***************************************************************************)
(* L76._run, the receiver thread.                                          *)
(***************************************************************************)
\* The lines the serial stream delivers to the thread.
SerialLines == {RmcA1, RmcV, RmcNoTime, RefGGA, GsaA, Gsv, BadSum}

\* The number of lines the thread reads in a run.
MaxLines == 3

AfterException_exit == "done"

\* Where the thread goes on after the except clause of the loop.
AfterException == "loop"

threadVars == <<_tm, _cfix, _rmc, _gga, _gsa, _utc, fresh, lastGsa>>

\* buffer = bytearray(256); self.running = True
run_enter ==
    /\ pc = "init"
    /\ running' = TRUE
    /\ pc' = "loop"
    /\ UNCHANGED <<lockVars, th, drv, threadVars, _time, _fix, line, sent, stopped,
                   timePub, prov, drain, fed, nfed>>

\* while self.running:
run_test ==
    /\ pc = "loop"
    /\ pc' = IF running THEN "read" ELSE "done"
    /\ UNCHANGED <<lockVars, running, th, drv, threadVars, _time, _fix, line,
                   sent, stopped,
                   timePub, prov, drain, fed, nfed>>

\* line = self.drv.readline(...): a line arrives.
run_read(l) ==
    /\ pc = "read"
    /\ nfed < MaxLines
    /\ line' = l
    /\ nfed' = nfed + 1
    /\ pc' = "check"
    /\ UNCHANGED <<lockVars, running, th, drv, threadVars, _time, _fix, sent, stopped,
                   timePub, prov, drain, fed>>

\* The readline raises: the except clause, and the next iteration.
run_read_fails ==
    /\ pc = "read"
    /\ pc' = AfterException
    /\ UNCHANGED <<lockVars, running, th, drv, threadVars, _time, _fix, line,
                   sent, stopped,
                   timePub, prov, drain, fed, nfed>>

\* line = self._check(line)
run_check ==
    /\ pc = "check"
    /\ line' = Checked(line)
    /\ pc' = "parse"
    /\ UNCHANGED <<lockVars, running, th, drv, threadVars, _time, _fix, sent, stopped,
                   timePub, prov, drain, fed, nfed>>

\* self._parse(line), lines 344-386.
ParseDecoded(dec) ==
    /\ Store(dec.d)
    /\ pc' = IF dec.out = "fall" THEN "pubtime"
             ELSE IF dec.out = "raise" THEN AfterException
             ELSE "loop"

run_parse ==
    /\ pc = "parse"
    /\ ParseDecoded(Decode(Cur, line))
    /\ UNCHANGED <<lockVars, running, th, drv, _time, _fix, line, sent, stopped,
                   timePub, prov, drain, fed, nfed>>

\* self._parse(line), lines 387-391.
run_pubtime ==
    /\ pc = "pubtime"
    /\ PublishTime(TimeWrite(Cur))
    /\ drain' = [drain EXCEPT !.utc = IF TimeWrite(Cur).write THEN <<>> ELSE @]
    /\ pc' = "pubfix"
    /\ UNCHANGED <<lockVars, running, th, drv, threadVars, _fix, line, sent, stopped,
                   prov, fed, nfed>>

\* self._parse(line), lines 392-415, and the return to the loop.
FixSection(f) ==
    /\ PublishFix(f, timePub)
    /\ drain' = [drain EXCEPT !.fix = IF f.pub THEN <<>> ELSE @]

run_pubfix ==
    /\ pc = "pubfix"
    /\ FixSection(FixSlotAfter(Cur, _fix))
    /\ pc' = "loop"
    /\ UNCHANGED <<lockVars, running, th, drv, _time, line, sent, stopped,
                   timePub, fed, nfed>>

Next ==
    \/ start
    \/ stop
    \/ pause
    \/ resume
    \/ fix_call(FALSE)
    \/ utc_call
    \/ run_enter
    \/ run_test
    \/ \E l \in SerialLines : run_read(l)
    \/ run_read_fails
    \/ run_check
    \/ run_parse
    \/ run_pubtime
    \/ run_pubfix

Spec == Init /\ [][Next]_vars

(***************************************************************************)
(* The slots under self._lock, statement by statement: the two critical    *)
(* sections of _parse (lines 389-391 and 398-415) and the accessors fix,   *)
(* has_fix, utc and has_utc (lines 189-253), each an acquire, a body and a *)
(* release.  cs is "out" outside the critical sections of _parse, "time"   *)
(* in that of lines 389-391 and "fix" in that of lines 398-415.            *)
(***************************************************************************)
Released_keep(holder) == holder

\* self._lock.release()
Released(holder) == "free"

\* self._lock.acquire() at lines 389 and 398: the thread waits for the lock.
parse_acquire ==
    /\ cs = "out"
    /\ lock = "free"
    /\ \/ pc = "pubtime" /\ TimeWrite(Cur).write /\ cs' = "time"
       \/ pc = "pubfix" /\ FixReady(Cur) /\ cs' = "fix"
    /\ lock' = "writer"
    /\ UNCHANGED <<running, th, drv, _tm, _cfix, _rmc, _gga, _gsa, _utc, _time,
                   _fix, pc, line, sent, histVars, rd>>

\* Lines 390 and 399-414 with the lock held, and lines 387 and 392 when
\* their test fails.
parse_section ==
    \/ cs = "time" /\ run_pubtime
    \/ cs = "fix" /\ run_pubfix
    \/ cs = "out" /\ ~TimeWrite(Cur).write /\ run_pubtime
    \/ cs = "out" /\ ~FixReady(Cur) /\ run_pubfix

\* self._lock.release() at lines 391 and 415.
parse_release ==
    /\ \/ cs = "time" /\ pc = "pubfix"
       \/ cs = "fix" /\ pc = "loop"
    /\ lock' = Released(lock)
    /\ cs' = "out"
    /\ UNCHANGED <<running, th, drv, _tm, _cfix, _rmc, _gga, _gsa, _utc, _time,
                   _fix, pc, line, sent, histVars, rd>>

\* Reader r calls the accessor m and waits at its self._lock.acquire().
reader_call(r, m) ==
    /\ rd[r].at = "idle"
    /\ rd' = [rd EXCEPT ![r].at = "wait", ![r].m = m]
    /\ UNCHANGED <<running, th, drv, _tm, _cfix, _rmc, _gga, _gsa, _utc, _time,
                   _fix, pc, line, sent, histVars, lock, cs>>

\* The acquire returns.
reader_acquire(r) ==
    /\ rd[r].at = "wait"
    /\ lock = "free"
    /\ lock' = r
    /\ rd' = [rd EXCEPT ![r].at = "in"]
    /\ UNCHANGED <<running, th, drv, _tm, _cfix, _rmc, _gga, _gsa, _utc, _time,
                   _fix, pc, line, sent, histVars, cs>>

PeekFix_take(slot) == [ret |-> slot # None, left |-> None]

\* What has_fix() returns and leaves in the slot.
PeekFix(slot) == [ret |-> slot # None, left |-> slot]

\* What a reader knows after the body of the accessor m, run by itself (own)
\* or by another reader, on the fix slot as it was: c is what it knew.
AfterBody(c, own, m, slot) ==
    IF own /\ m = "has_fix"
    THEN [c EXCEPT !.at = "ret", !.has = IF PeekFix(slot).ret THEN "yes" ELSE "no"]
    ELSE IF own /\ m = "fix"
    THEN [c EXCEPT !.at = "ret", !.has = "no",
                   !.check = IF c.has = "no" THEN "none"
                             ELSE IF TakeFix(slot).ret # None THEN "took"
                             ELSE IF c.has = "yes" THEN "alone"
                             ELSE "shared"]
    ELSE IF own THEN [c EXCEPT !.at = "ret"]
    ELSE IF m = "fix" /\ slot # None /\ c.has = "yes" THEN [c EXCEPT !.has = "shared"]
    ELSE c

\* The statements of the accessor between its acquire and its release.
reader_body(r) ==
    /\ rd[r].at = "in"
    /\ _fix' = IF rd[r].m = "fix" THEN TakeFix(_fix).left
               ELSE IF rd[r].m = "has_fix" THEN PeekFix(_fix).left
               ELSE _fix
    /\ _time' = IF rd[r].m = "utc" THEN TakeUtc(_time).left ELSE _time
    /\ drain' = [fix |-> IF rd[r].m = "fix" THEN Handed(drain.fix, TakeFix(_fix).ret)
                         ELSE drain.fix,
                 utc |-> IF rd[r].m = "utc" THEN Handed(drain.utc, TakeUtc(_time).ret)
                         ELSE drain.utc]
    /\ rd' = [q \in Readers |-> AfterBody(rd[q], q = r, rd[r].m, _fix)]
    /\ UNCHANGED <<running, th, drv, _tm, _cfix, _rmc, _gga, _gsa, _utc, pc, line,
                   sent, stopped, fresh, lastGsa, timePub, prov, fed, nfed, lock, cs>>

\* self._lock.release() and the return of the accessor.
reader_return(r) ==
    /\ rd[r].at = "ret"
    /\ lock' = Released(lock)
    /\ rd' = [rd EXCEPT ![r].at = "idle", ![r].m = "none"]
    /\ UNCHANGED <<running, th, drv, _tm, _cfix, _rmc, _gga, _gsa, _utc, _time,
                   _fix, pc, line, sent, histVars, cs>>

\* The number of lines the thread reads in these runs: an RMC and a GGA
\* make a fix.
MaxLockLines == 2

NextLock ==
    \/ start
    \/ cs = "out" /\ run_enter
    \/ cs = "out" /\ run_test
    \/ \E l \in {RmcA1, RefGGA} : cs = "out" /\ nfed < MaxLockLines /\ run_read(l)
    \/ cs = "out" /\ run_check
    \/ cs = "out" /\ run_parse
    \/ parse_acquire
    \/ parse_section
    \/ parse_release
    \/ \E r \in Readers, m \in {"fix", "has_fix", "utc", "has_utc"} : reader_call(r, m)
    \/ \E r \in Readers : reader_acquire(r)
    \/ \E r \in Readers : reader_body(r)
    \/ \E r \in Readers : reader_return(r)

\* A thread that can take a step takes one; a thread waiting for the lock
\* gets it if the lock is free again and again.  Nothing is assumed of the
\* serial stream, nor of when the application calls an accessor.
FairLock ==
    /\ WF_vars(parse_section)
    /\ WF_vars(parse_release)
    /\ \A r \in Readers : SF_vars(reader_acquire(r))
    /\ \A r \in Readers : WF_vars(reader_body(r))
    /\ \A r \in Readers : WF_vars(reader_return(r))

SpecLock == Init /\ [][NextLock]_vars /\ FairLock

(***************************************************************************)
(* _check on its own: the receiver thread holds a buffer the serial stream *)
(* delivered, any bytes at all, and line noise may have changed one byte   *)
(* of a well-formed line before it was read.                               *)
(***************************************************************************)
\* The length of the longest such buffer.
MaxBuf == 8

\* The buffers tried: the bytes '$', '*', '0', '3' in every order.
Buffers == UNION {[1 .. n -> {chDollar, chStar, 48, 51}] : n \in 0 .. MaxBuf}

\* The bytes of the payloads of the well-formed lines: '0', '3', 'A', 'K'.
PayloadBytes == {48, 51, 65, 75}

\* The length of the longest such payload.
MaxPayload == 4

\* The bytes line noise turns a byte into: '$', '*', ' ', '0', '3', 'A', 'K', 'a'.
NoiseBytes == {chDollar, chStar, 32, 48, 51, 65, 75, 97}

\* The XOR of the bytes of s, byte after byte.
RECURSIVE XorOf(_)
XorOf(s) == IF s = <<>> THEN 0 ELSE PyXor(s[1], XorOf(Tail(s)))

\* The two upper-case hexadecimal digits of v.
HexDigit(v) == IF v < 10 THEN 48 + v ELSE 55 + v
Hex2(v) == <<HexDigit(v \div 16), HexDigit(v % 16)>>

\* The line "$<payload>*<HH>".
WellFormed(payload) == <<chDollar>> \o payload \o <<chStar>> \o Hex2(XorOf(payload))

WellFormedLines ==
    {WellFormed(p) : p \in UNION {[1 .. n -> PayloadBytes] : n \in 1 .. MaxPayload}}

InitCheck ==
    /\ running = TRUE
    /\ th = TRUE
    /\ drv = TRUE
    /\ _tm = <<0, 0, 0, 0, 0, 0, 0>>
    /\ _cfix = <<None, None, None, None, None, None, None, None, None, None>>
    /\ _rmc = FALSE
    /\ _gga = FALSE
    /\ _gsa = FALSE
    /\ _utc = FALSE
    /\ _time = None
    /\ _fix = None
    /\ pc = "check"
    /\ line \in Buffers \cup WellFormedLines
    /\ sent = ""
    /\ stopped = FALSE
    /\ fresh = {}
    /\ lastGsa = None
    /\ timePub = None
    /\ prov = NoProv
    /\ drain = NoDrain
    /\ fed = <<>>
    /\ nfed = 1
    /\ lock = "free"
    /\ cs = "out"
    /\ rd = [r \in Readers |-> NoCall]

\* Line noise: byte i of a well-formed line, in the payload or the checksum,
\* arrives as b.
Corrupt(i, b) ==
    /\ pc = "check"
    /\ fed = <<>>
    /\ line \in WellFormedLines
    /\ i \in 2 .. Len(line)
    /\ line[i] # b
    /\ i # Len(line) - 2
    /\ line' = [line EXCEPT ![i] = b]
    /\ fed' = <<[ev |-> "orig", v |-> line]>>
    /\ UNCHANGED <<lockVars, running, th, drv, threadVars, _time, _fix, pc, sent, stopped,
                   timePub, prov, drain, nfed>>

\* line = self._check(line), on the buffer itself.
check_call ==
    /\ pc = "check"
    /\ line' = _check(line)
    /\ fed' = Append(fed, [ev |-> "check", v |-> line])
    /\ pc' = "parse"
    /\ UNCHANGED <<lockVars, running, th, drv, threadVars, _time, _fix, sent, stopped,
                   timePub, prov, drain, nfed>>

NextCheck ==
    \/ \E i \in 2 .. (MaxPayload + 4), b \in NoiseBytes : Corrupt(i, b)
    \/ check_call

SpecCheck == InitCheck /\ [][NextCheck]_vars

(***************************************************************************)
(* The checksum validator (C4, C5), under SpecCheck.                       *)
(***************************************************************************)
\* The buffer handed to _check, and the line before the noise.
Checked_buf == fed[Len(fed)].v
Orig_buf == fed[1].v

\* buf holds "$<payload>*<HH>" from position i to position j + 2, the '$' at
\* i and the '*' at j (positions from 1).
IsFrame(buf, i, j) ==
    /\ 1 <= i /\ i < j /\ j + 2 <= Len(buf)
    /\ buf[i] = chDollar
    /\ buf[j] = chStar
    /\ \A k \in (i + 1) .. (j - 1) : buf[k] \notin {chDollar, chStar}
    /\ SubSeq(buf, j + 1, j + 2) = Hex2(XorOf(SubSeq(buf, i + 1, j - 1)))

Positions(buf) == 1 .. Len(buf)

\* C4 as stated: _check of a buffer that holds "$<payload>*<HH>" returns the
\* payload alone, whatever surrounds the frame.
C4_Original ==
    (pc = "parse" /\ Len(fed) = 1) =>
        \A i, j \in Positions(Checked_buf) :
            IsFrame(Checked_buf, i, j) => line = SubSeq(Checked_buf, i + 1, j - 1)

\* C4 amended: _check of a buffer that holds "$<payload>*<HH>", the payload of
\* two bytes or more and no '$' after the frame, returns "$<payload>": the
\* leading '$' included, the '*' and the checksum excluded.
C4_Check ==
    (pc = "parse" /\ Len(fed) = 1) =>
        \A i, j \in Positions(Checked_buf) :
            ( /\ IsFrame(Checked_buf, i, j)
              /\ j - i >= 3
              /\ \A k \in (j + 3) .. Len(Checked_buf) : Checked_buf[k] # chDollar )
            => line = SubSeq(Checked_buf, i, j - 1)

\* A frame with a byte before it and a byte after it has been checked and
\* returned with its '$'.
C4_Witness ==
    /\ pc = "parse"
    /\ Len(fed) = 1
    /\ \E i, j \in Positions(Checked_buf) :
          /\ IsFrame(Checked_buf, i, j)
          /\ i > 1
          /\ j + 2 < Len(Checked_buf)
          /\ j - i >= 3
          /\ line = SubSeq(Checked_buf, i, j - 1)
          /\ line # None

\* The position the noise changed.
Changed == CHOOSE i \in Positions(Orig_buf) : Orig_buf[i] # Checked_buf[i]
InPayload(i) == i <= Len(Orig_buf) - 3
Checksum(buf) == SubSeq(buf, Len(buf) - 1, Len(buf))

\* C5 as stated: a well-formed line with one byte of its payload or of its
\* checksum changed is rejected.
C5_Original ==
    (pc = "parse" /\ Len(fed) = 2) => line = None

\* The changes C5 amended leaves out: a payload byte turned into '$' or '*',
\* and a checksum character changed so that int(HH, 16) reads the same number.
Harmless ==
    IF InPayload(Changed) THEN Checked_buf[Changed] \in {chDollar, chStar}
    ELSE /\ PyInt(Checksum(Checked_buf), 16).ok
         /\ PyInt(Checksum(Checked_buf), 16).v = PyInt(Checksum(Orig_buf), 16).v

\* C5 amended: a well-formed line is rejected after one payload byte is changed
\* to a byte other than '$' and '*', or one checksum character is changed so
\* that the two characters no longer read as the same base-16 number.
C5_Check ==
    (pc = "parse" /\ Len(fed) = 2 /\ ~Harmless) => line = None

\* A line _check would accept (payload of two bytes) was rejected after a
\* change of a payload byte.
C5_Witness ==
    /\ pc = "parse"
    /\ Len(fed) = 2
    /\ Len(Orig_buf) >= 6
    /\ InPayload(Changed)
    /\ ~Harmless
    /\ line = None

(***************************************************************************)
(* The fix aggregator (C1, C2), under SpecFeed: fed is the log of the      *)
(* calls, with each publication of a fix after the call that made it.      *)
(***************************************************************************)
IsCall(e) == e.ev # "pub"
IsPub(e) == e.ev = "pub"
CallsMade == SelectSeq(fed, IsCall)
Pubs == SelectSeq(fed, IsPub)

\* The RMC and GGA lines of the line set that are valid: validity "A" (quality
\* not "0"), enough fields, and every field used decodable.
ValidRMC == {RmcA1, RmcA2}
ValidGGA == {RefGGA, GgaB}

IsPair(a, b) ==
    /\ a.ev = "line"
    /\ b.ev = "line"
    /\ \/ a.v \in ValidRMC /\ b.v \in ValidGGA
       \/ a.v \in ValidGGA /\ b.v \in ValidRMC

ReferenceFix ==
    << <<481173, 10000>>, <<691, 60>>, <<2727, 5>>, <<25928, 625>>, <<422, 5>>,
       <<8>>, <<9, 10>>, None, None, <<1994, 3, 23, 12, 35, 19, 0>> >>

LinesFed(a, b) == CallsMade = <<LineEv(a), LineEv(b)>>

\* C2 as stated: the two reference lines, fed in order to a fresh driver,
\* publish exactly one fix, the reference fix.
C2_Original ==
    LinesFed(RefRMC, RefGGA) => (Len(Pubs) = 1 /\ _fix = ReferenceFix)

\* C2 amended: the two reference lines, fed in order to a fresh driver, publish
\* no fix and no timestamp (the RMC line has 12 fields and is dropped); with
\* the RMC line carrying a fractional time and a 13th field, the pair publishes
\* exactly one fix, the reference fix.
C2_Reference ==
    /\ LinesFed(RefRMC, RefGGA) => (Pubs = <<>> /\ _fix = None /\ _time = None)
    /\ LinesFed(RmcA1, RefGGA) => (Len(Pubs) = 1 /\ _fix = ReferenceFix)

\* The 13-field reference pair has been fed and the reference fix is in the slot.
C2_Witness ==
    /\ LinesFed(RmcA1, RefGGA)
    /\ _fix = ReferenceFix
    /\ _time = <<1994, 3, 23, 12, 35, 19, 0>>

(***************************************************************************)
(* The sentence parser (C3, C6, C7), under SpecParse.                      *)
(***************************************************************************)
\* ln is an RMC sentence with enough fields whose time and date decode.
TimeCarrying(ln) ==
    /\ ln # None
    /\ Len(ln) >= 8
    /\ PySlice(ln, 3, 6) = strRMC
    /\ Len(Fields(ln)) >= 13
    /\ ~_set_time(Cur, Fld(Fields(ln), 1), Fld(Fields(ln), 9)).exc

\* The timestamp the sentence carries.
TimeOf(ln) == _set_time(Cur, Fld(Fields(ln), 1), Fld(Fields(ln), 9)).tm

Inactive(ln) == Fld(Fields(ln), 2) # strA

\* C3: when a _parse call that decoded the time of an RMC sentence with enough
\* fields returns, the timestamp slot holds that timestamp, the validity active
\* or not; an inactive one changes no position data and not the RMC-seen flag.
C3_Immediate ==
    [][ (nfed' = nfed + 1 /\ TimeCarrying(line'))
        => /\ _time' = TimeOf(line')
           /\ Inactive(line') => (/\ _rmc' = _rmc
                                  /\ SubSeq(_cfix', 1, 9) = SubSeq(_cfix, 1, 9)) ]_vars

\* C6: every published fix is built of fields written since the previous
\* publication: the seven mandatory fields and the seven components of the
\* time always, VDOP and PDOP unless they are absent.
C6_SelfConsistent ==
    prov.fix # None =>
        /\ \A i \in 1 .. 7 : i \in prov.fresh
        /\ \A i \in 8 .. 9 : prov.fix[i] # None => i \in prov.fresh
        /\ \A i \in 11 .. 17 : i \in prov.fresh

\* A second fix, with VDOP and PDOP, has been published after a first.
C6_Witness ==
    /\ Len(fed) = 2
    /\ fed[1].v # fed[2].v
    /\ prov.fix = fed[2].v
    /\ prov.fix[8] # None
    /\ prov.fix[9] # None

\* C7: VDOP and PDOP of a published fix are absent when no GSA sentence was
\* decoded in full since the previous publication, and are those of the last
\* such sentence otherwise.
C7_Optional ==
    prov.fix # None =>
        IF prov.gsa = None THEN prov.fix[8] = None /\ prov.fix[9] = None
        ELSE <<prov.fix[8], prov.fix[9]>> = prov.gsa

(***************************************************************************)
(* The slots and the loop (C8, C9, C10), under Spec.                       *)
(***************************************************************************)
\* C8: the timestamp embedded in a fix is the one last published to the
\* timestamp slot when the fix is published.
C8_Ordering == prov.fix # None => prov.fix[10] = prov.time

\* A fix is in the slot after an RMC sentence whose time was not published
\* by its own call.
C8_Witness ==
    /\ _fix # None
    /\ prov.fix = _fix
    /\ prov.time = _fix[10]
    /\ _fix[10] = <<1980, 1, 6, 0, 0, 1, 0>>

\* C9: of the calls of fix() since the last publication of a fix, the first
\* returned that fix (None if there was none) and the later ones None; the
\* same for utc() and the timestamp.
C9_Drain ==
    /\ Len(drain.fix) >= 1 => drain.fix[1] = prov.fix
    /\ Len(drain.fix) = 2 => drain.fix[2] = None
    /\ Len(drain.utc) >= 1 => drain.utc[1] = timePub
    /\ Len(drain.utc) = 2 => drain.utc[2] = None

\* Both accessors have been called twice on a pending value.
C9_Witness ==
    /\ Len(drain.fix) = 2
    /\ drain.fix[1] # None
    /\ drain.fix[2] = None
    /\ Len(drain.utc) = 2
    /\ drain.utc[1] # None
    /\ drain.utc[2] = None

DroppedLine(ln) ==
    \/ ln = None
    \/ /\ Len(ln) >= 8
       /\ \/ PySlice(ln, 3, 6) = strRMC /\ Len(Fields(ln)) < 13
          \/ PySlice(ln, 3, 6) = strGGA /\ Len(Fields(ln)) < 15
          \/ PySlice(ln, 3, 6) = strGGA /\ Fld(Fields(ln), 6) = str0
          \/ PySlice(ln, 3, 6) = strGSA /\ Len(Fields(ln)) < 18
          \/ PySlice(ln, 3, 6) = strGSA /\ Fld(Fields(ln), 2) # str3

\* C11: feeding a line that _check rejects, or that _parse drops for too
\* few fields, GGA quality "0" or a GSA mode other than "3", changes neither
\* the seen-flags, nor the buffered fields, nor either slot.
C11_Dropped ==
    [][(nfed' = nfed + 1 /\ DroppedLine(line'))
        => UNCHANGED <<_tm, _cfix, _rmc, _gga, _gsa, _utc, _time, _fix>>]_vars

\* A dropped sentence has arrived between the RMC and the GGA of a cycle.
C11_Witness ==
    /\ nfed = 2
    /\ line # None
    /\ DroppedLine(line)
    /\ _rmc
    /\ ~_gga

\* ---------------------------------------------------------------------
\* C12. Two-digit year resolution.

\* The value yy that _set_time parses from the date field of the sentence.
ParsedYear(ln) == PyInt(PyFrom(Fld(Fields(ln), 9), 4), 10).v

ClaimedYear(yy) == IF yy >= 80 /\ yy < 100 THEN 1900 + yy ELSE 2000 + yy

\* C12: the year _set_time stores for the parsed value yy is 1900 + yy when
\* 80 <= yy < 100, and 2000 + yy otherwise, yy >= 100 included.
C12_Year ==
    [][(nfed' = nfed + 1 /\ TimeCarrying(line'))
        => _tm'[At(0)] = ClaimedYear(ParsedYear(line'))]_vars

(***************************************************************************)
(* The life cycle of the receiver thread (C13, C14, C17), under Spec.      *)
(***************************************************************************)
\* C13: once stop() has been called, is_running() reports false and the
\* receiver thread has left its loop, a call of start() creates a receiver
\* thread again: the thread is at the head of _run after the call.
C13_Restart ==
    (stopped /\ ~running /\ pc = "done") => ENABLED (start /\ pc' = "init")

\* C14: a stop() made once start() has created the thread is never lost:
\* from the call on the running flag is false, whatever the thread has
\* executed so far, so that the next test of the loop ends the thread.
C14_Stop == stopped => ~running

\* The steps of pause() and resume(): the command written last changes to
\* theirs (a call that repeats the last command changes nothing at all).
PauseOrResume == sent' # sent /\ sent' \in {cmdPause, cmdResume}

\* C17 as stated: pause() sets the running flag false.
C17_Original == [][(sent' # sent /\ sent' = cmdPause) => running' = FALSE]_vars

\* C17: pause() and resume() write their command to the receiver and leave
\* the running flag, the receiver thread and its position in the loop, the
\* buffered fields and both slots as they are: the loop neither idles nor
\* ends because of them.
C17_Pause ==
    [][PauseOrResume
        => /\ running' = running
           /\ th' = th
           /\ pc' = pc
           /\ UNCHANGED <<_tm, _cfix, _rmc, _gga, _gsa, _utc, _time, _fix>>]_vars

\* After pause() and resume() the loop is running and about to publish a fix.
C17_Witness ==
    /\ sent = cmdResume
    /\ running
    /\ pc = "pubfix"
    /\ FixReady(Cur)

(***************************************************************************)
(* Sentences of another type (C16), under Spec.                            *)
(***************************************************************************)
\* ln, as _check returned it, is a sentence whose command code is none of
\* RMC, GGA, GSA.
Unrecognized(ln) ==
    /\ ln # None
    /\ Len(ln) >= 8
    /\ PySlice(ln, 3, 6) \notin {strRMC, strGGA, strGSA}

\* C16: no step of _parse on a sentence of another type changes the driver
\* state: the buffered fields, the seen-flags, the Fix slot and the timestamp
\* slot are after the step what they were before it.
C16_Ignored ==
    [][(pc \in {"parse", "pubtime", "pubfix"} /\ pc' # pc /\ Unrecognized(line))
        => UNCHANGED <<_tm, _cfix, _rmc, _gga, _gsa, _utc, _time, _fix>>]_vars

(***************************************************************************)
(* Timestamp and position of a fix (C19), under SpecParse.                 *)
(***************************************************************************)
\* l is an RMC line that _parse decodes in full, and f carries its latitude,
\* longitude, speed and course together with its time and date.
SameRmc(f, l) ==
    /\ Checked(l) # None
    /\ PySlice(Checked(l), 3, 6) = strRMC
    /\ Decode(Cur, Checked(l)).out = "fall"
    /\ \A i \in {0, 1, 3, 4} : f[At(i)] = Decode(Cur, Checked(l)).d.cfix[At(i)]
    /\ f[At(9)] = Decode(Cur, Checked(l)).d.tm

\* C19: every published fix carries the position, speed and course of one
\* RMC sentence together with the time and date of that same sentence,
\* whatever sentences came between it and the GGA.
C19_Coherent == prov.fix # None => \E l \in Lines : SameRmc(prov.fix, l)

(***************************************************************************)
(* The lock and the readers (C15, C18), under SpecLock.                    *)
(***************************************************************************)
\* C15: the receiver thread holds the lock only inside the two critical
\* sections of _parse, never in the line read, in _check or in the decoding;
\* readers hold it only inside an accessor; and every accessor call returns.
C15_Lock ==
    /\ [](lock = "writer" => cs # "out" /\ pc \in {"pubtime", "pubfix", "loop"})
    /\ [](\A r \in Readers : lock = r => rd[r].at \in {"in", "ret"})
    /\ \A r \in Readers : (rd[r].at = "wait") ~> (rd[r].at = "idle")

\* A reader waits for the lock while the receiver thread publishes a fix.
C15_Witness ==
    /\ lock = "writer"
    /\ cs = "fix"
    /\ pc = "pubfix"
    /\ \E r \in Readers : rd[r].at = "wait" /\ rd[r].m = "fix"

\* C18: a fix() that follows a has_fix() of the same reader that returned
\* true returns a fix, unless another reader took the fix in between.
C18_CheckThenTake == \A r \in Readers : rd[r].check # "alone"

\* Both readers saw has_fix() true of the same fix: the first got it, the
\* second got None.
C18_Witness ==
    /\ rd["r1"].check = "took"
    /\ rd["r2"].check = "shared"
    /\ pc # "off"

====
